---- MODULE Spec2Model ----
(***************************************************************************)
(* Model of the instance status-detection and lifecycle commands of        *)
(* src-tauri/src/commands/instance.rs: the instance store (instances.json),*)
(* the CRUD commands, detect_instance_status, detect_all_instances_status, *)
(* check_instance_health and stop_instance, the credentials file and its   *)
(* commands, and the process lookup by port of src-tauri/src/platform.     *)
(*                                                                         *)
(* One command of the detection / health / stop family is in flight at a   *)
(* time and advances one I/O boundary (file load, socket connect, process  *)
(* query, HTTP exchange) per step; the CRUD commands of other callers run  *)
(* between any two of its steps.  Every outcome of the network and of the  *)
(* operating system is an input of the step that observes it.              *)
(*                                                                         *)
(* Option<T> is modelled as a sequence of length at most one: None is <<>>,*)
(* Some(x) is <<x>>.  Text is a sequence of one-character strings, so that *)
(* lower-casing and substring search are computed, not assumed.            *)
(***************************************************************************)
EXTENDS Integers, Sequences, FiniteSets, TLC

VARIABLES store, pc, call, batch, probes, ret, others, creds, os, pure

vars == <<store, pc, call, batch, probes, ret, others, creds, os, pure>>

None == <<>>
Some(x) == <<x>>

(***************************************************************************)
(* Data types (instance.rs 16-121)                                         *)
(***************************************************************************)
AemInstanceStatus ==
    {"Running", "Stopped", "Starting", "Stopping", "Error", "Unknown", "PortConflict"}

AemInstanceType == {"author", "publish", "dispatcher"}

\* Instance ids a caller may name; "" is "no id given" in add_instance.
Ids == {"a", "b"}

\* (instance_type, port) pairs of the records callers submit.
Payloads ==
    { [instance_type |-> "author", port |-> 4502],
      [instance_type |-> "publish", port |-> 4503] }

\* The status field a caller may put in an update_instance payload.
PayloadStatuses == {"Stopping"}

AemInstance(id, pl, status, updated_at) ==
    [ id |-> id, host |-> "localhost", port |-> pl.port,
      instance_type |-> pl.instance_type, status |-> status,
      updated_at |-> updated_at ]

\* chrono::Utc::now() at the time of a write, as opposed to the timestamp
\* "t0" a record was submitted with.
UtcNow == "now"

(***************************************************************************)
(* Text helpers                                                            *)
(***************************************************************************)
LowerChar(c) ==
    CASE c = "A" -> "a" [] c = "D" -> "d" [] c = "E" -> "e" [] c = "J" -> "j"
      [] c = "K" -> "k" [] c = "N" -> "n" [] c = "O" -> "o" [] c = "P" -> "p"
      [] c = "R" -> "r" [] c = "V" -> "v"
      [] OTHER -> c

ToLowercase(s) == [i \in 1..Len(s) |-> LowerChar(s[i])]

Contains(s, t) ==
    \E i \in 0..(Len(s) - Len(t)) : SubSeq(s, i + 1, i + Len(t)) = t

EndsWith(s, t) ==
    /\ Len(s) >= Len(t)
    /\ SubSeq(s, Len(s) - Len(t) + 1, Len(s)) = t

\* is_java_process
IsJavaProcess(process_name) ==
    LET name_lower == ToLowercase(process_name)
    IN  \/ Contains(name_lower, <<"j", "a", "v", "a">>)
        \/ Contains(name_lower, <<"j", "d", "k">>)
        \/ Contains(name_lower, <<"j", "r", "e">>)
        \/ EndsWith(name_lower, <<"/", "j", "a", "v", "a">>)
        \/ name_lower = <<"j", "a", "v", "a">>

(***************************************************************************)
(* Storage helpers: the store variable is the content of instances.json.   *)
(***************************************************************************)
\* position(|i| i.id == id): the first index holding id, 0 when there is none
Position(instances, id) ==
    IF \E i \in 1..Len(instances) : instances[i].id = id
    THEN CHOOSE i \in 1..Len(instances) :
            /\ instances[i].id = id
            /\ \A j \in 1..(i - 1) : instances[j].id # id
    ELSE 0

Retain(instances, id) == SelectSeq(instances, LAMBDA i : i.id # id)

NotFoundBroken(id) == <<"Instance not found">>

NotFound(id) == <<"Instance ", id, " not found">>


(***************************************************************************)
(* Values that cross the command boundary                                  *)
(***************************************************************************)
Ok(v) == [ok |-> TRUE, val |-> v, err |-> None]
Err(e) == [ok |-> FALSE, val |-> None, err |-> Some(e)]

NoCall ==
    [ op |-> "none", id |-> "", instances |-> <<>>, process_info |-> None,
      status |-> "", bundle_status |-> None, memory_status |-> None,
      auth |-> None ]

\* detect_all_instances_status: the ids of the vector it loaded and the
\* results pushed so far; the loop is at ids[Len(results) + 1].
NoBatch == [active |-> FALSE, ids |-> <<>>, results |-> <<>>]

NoRet == [op |-> "none", id |-> "", ok |-> FALSE, val |-> None, err |-> None]

Returned(op, id, r) ==
    [op |-> op, id |-> id, ok |-> r.ok, val |-> r.val, err |-> r.err]

\* The record the in-flight command holds a reference to: instances[index]
\* of its own copy of the store.
Instance == call.instances[Position(call.instances, call.id)]

(***************************************************************************)
(* What the network and the operating system may answer                    *)
(***************************************************************************)
\* An HTTP exchange: a response with a status code, or a transport failure
\* (connection refused, reset, timeout) with none.
HttpResponse(code) == [ok |-> TRUE, code |-> code]
HttpFailure == [ok |-> FALSE, code |-> 0]

LoginCodes == {200, 302, 401, 404}
LoginOutcomes == {HttpFailure} \cup {HttpResponse(c) : c \in LoginCodes}

NameJava == <<"j", "a", "v", "a">>
NameOpenJdk == <<"O", "p", "e", "n", "J", "D", "K">>
NameNginx == <<"n", "g", "i", "n", "x">>

\* (pid, process_name) pairs the listener lookup may come back with.
ProcessInfos == {<<900, NameJava>>, <<901, NameOpenJdk>>, <<555, NameNginx>>}
LookupOutcomes == {None} \cup {Some(p) : p \in ProcessInfos}

(***************************************************************************)
(* detect_instance_status (instance.rs 1485-1544)                          *)
(***************************************************************************)
StatusResult(id, status, process_id, process_name, error) ==
    [ instance_id |-> id, status |-> status, process_id |-> process_id,
      process_name |-> process_name, error |-> error ]

PortClosedResultBroken(id) == StatusResult(id, "Unknown", None, None, None)

\* the early return of layer 1
PortClosedResult(id) == StatusResult(id, "Stopped", None, None, None)

PortConflictError(port, name) ==
    <<"Port ", port, " is occupied by non-Java process: ", name>>

PortConflictResultBroken(id, port, pid, name) ==
    StatusResult(id, "PortConflict", None, None, Some(PortConflictError(port, name)))

\* the early return of layer 2
PortConflictResult(id, port, pid, name) ==
    StatusResult(id, "PortConflict", Some(pid), Some(name),
                 Some(PortConflictError(port, name)))

ConflictOfBroken(id, port, process_info) ==
    IF process_info = None
    THEN Some(StatusResult(id, "PortConflict", None, None,
                           Some(<<"Port ", port, " is occupied">>)))
    ELSE IF ~IsJavaProcess(process_info[1][2])
    THEN Some(PortConflictResult(id, port, process_info[1][1], process_info[1][2]))
    ELSE None

\* if let Some((pid, name)) = &process_info { if !is_java_process(name) {
\* return ... } }: the early return of layer 2, when it is taken
ConflictOf(id, port, process_info) ==
    IF process_info # None /\ ~IsJavaProcess(process_info[1][2])
    THEN Some(PortConflictResult(id, port, process_info[1][1], process_info[1][2]))
    ELSE None

PortClosedBroken(port_open) == FALSE

\* if !port_open { return ... }
PortClosed(port_open) == ~port_open

HttpReadyBroken(resp) == resp.ok /\ resp.code = 200

\* check_aem_http_ready: the match on the response
HttpReady(resp) == resp.ok /\ resp.code \in {200, 302, 401}

ProbedStatusBroken(http_ready) == IF http_ready THEN "Running" ELSE "Stopped"

ProbedStatus(http_ready) == IF http_ready THEN "Running" ELSE "Starting"

\* the final result of layer 3
ProbedResultBroken(id, http_ready, process_info) ==
    StatusResult(id, ProbedStatus(http_ready),
                 IF process_info = None THEN None ELSE Some(process_info[1][1]),
                 None,
                 None)

\* the result of layer 3

ProbedResult(id, http_ready, process_info) ==
    StatusResult(id, ProbedStatus(http_ready),
                 IF process_info = None THEN None ELSE Some(process_info[1][1]),
                 IF process_info = None THEN None ELSE Some(process_info[1][2]),
                 None)

UnknownResultBroken(id, e) == StatusResult(id, "Unknown", None, None, None)

\* detect_all_instances_status: the result pushed for a failed detection
UnknownResult(id, e) == StatusResult(id, "Unknown", None, None, Some(e))

\* One entry of the log of the I/O a command has issued, with its outcome.
Probe(kind, out) == [kind |-> kind, out |-> out]

\* The return of a detect_instance_status call: to its caller, or into the
\* results of the detect_all_instances_status loop that awaits it.
DetectReturn(r) ==
    IF batch.active
    THEN LET id == batch.ids[Len(batch.results) + 1]
             results == Append(batch.results,
                               IF r.ok THEN r.val ELSE UnknownResult(id, r.err[1]))
         IN  IF Len(results) = Len(batch.ids)
             THEN /\ pc' = "idle"
                  /\ call' = NoCall
                  /\ batch' = [batch EXCEPT !.active = FALSE, !.results = results]
                  /\ ret' = Returned("detect_all", "", Ok(results))
             ELSE /\ pc' = "d_load"
                  /\ call' = [NoCall EXCEPT !.op = "detect",
                                            !.id = batch.ids[Len(results) + 1]]
                  /\ batch' = [batch EXCEPT !.results = results]
                  /\ ret' = ret
    ELSE /\ pc' = "idle"
         /\ call' = NoCall
         /\ batch' = batch
         /\ ret' = Returned("detect", call.id, r)

\* A caller invokes detect_instance_status(id).
CallDetect(id) ==
    /\ pc = "idle"
    /\ pc' = "d_load"
    /\ call' = [NoCall EXCEPT !.op = "detect", !.id = id]
    /\ ret' = NoRet
    /\ probes' = <<>>
    /\ others' = 0
    /\ batch' = NoBatch
    /\ UNCHANGED store
    /\ UNCHANGED <<creds, os, pure>>

\* load_instances and the lookup of the instance by id.  Of the loaded vector
\* only the record found is read afterwards, so only it is kept.
DetectLoad ==
    /\ pc = "d_load"
    /\ probes' = <<>>
    /\ IF Position(store, call.id) = 0
       THEN DetectReturn(Err(NotFound(call.id)))
       ELSE /\ pc' = "d_port"
            /\ call' = [call EXCEPT !.instances = <<store[Position(store, call.id)]>>]
            /\ UNCHANGED <<batch, ret>>
    /\ UNCHANGED <<store, others>>
    /\ UNCHANGED <<creds, os, pure>>

DetectPortBroken(port_open) ==
    /\ pc = "d_port"
    /\ probes' = Append(probes, Probe("port", [port |-> Instance.port, open |-> port_open]))
    /\ IF PortClosed(port_open) \/ Instance.status = "Stopping"
       THEN DetectReturn(Ok(PortClosedResult(call.id)))
       ELSE /\ pc' = "d_proc"
            /\ UNCHANGED <<call, batch, ret>>
    /\ UNCHANGED <<store, others>>
    /\ UNCHANGED <<creds, os, pure>>

\* Layer 1: check_port_open(host, port, 500)
DetectPort(port_open) ==
    /\ pc = "d_port"
    /\ probes' = Append(probes, Probe("port", [port |-> Instance.port, open |-> port_open]))
    /\ IF PortClosed(port_open)
       THEN DetectReturn(Ok(PortClosedResult(call.id)))
       ELSE /\ pc' = "d_proc"
            /\ UNCHANGED <<call, batch, ret>>
    /\ UNCHANGED <<store, others>>
    /\ UNCHANGED <<creds, os, pure>>

DetectProcessBroken(process_info) ==
    /\ pc = "d_proc"
    /\ probes' = Append(probes, Probe("lookup", process_info))
    /\ IF process_info = None /\ Len(probes) = 1
       THEN UNCHANGED <<pc, call, batch, ret>>
       ELSE IF ConflictOf(call.id, Instance.port, process_info) # None
       THEN DetectReturn(Ok(ConflictOf(call.id, Instance.port, process_info)[1]))
       ELSE /\ pc' = "d_http"
            /\ call' = [call EXCEPT !.process_info = process_info]
            /\ UNCHANGED <<batch, ret>>
    /\ UNCHANGED <<store, others>>
    /\ UNCHANGED <<creds, os, pure>>

\* Layer 2: get_process_info_by_port(port) and the Java check
DetectProcess(process_info) ==
    /\ pc = "d_proc"
    /\ probes' = Append(probes, Probe("lookup", process_info))
    /\ IF ConflictOf(call.id, Instance.port, process_info) # None
       THEN DetectReturn(Ok(ConflictOf(call.id, Instance.port, process_info)[1]))
       ELSE /\ pc' = "d_http"
            /\ call' = [call EXCEPT !.process_info = process_info]
            /\ UNCHANGED <<batch, ret>>
    /\ UNCHANGED <<store, others>>
    /\ UNCHANGED <<creds, os, pure>>

DetectHttpBroken(client_ok, resp) ==
    /\ pc = "d_http"
    /\ ~client_ok => resp = HttpFailure
    /\ probes' = IF client_ok THEN Append(probes, Probe("http", resp)) ELSE probes
    /\ DetectReturn(Ok(ProbedResult(call.id, client_ok /\ HttpReady(resp),
                                    call.process_info)))
    /\ store' = [i \in 1..Len(store) |->
                    IF store[i].id = call.id
                    THEN [store[i] EXCEPT !.status =
                              ProbedStatus(client_ok /\ HttpReady(resp))]
                    ELSE store[i]]
    /\ UNCHANGED <<others, creds, os, pure>>

\* Layer 3: check_aem_http_ready(host, port, 3000).  When the HTTP client
\* cannot be built no request is sent and the instance counts as not ready.
DetectHttp(client_ok, resp) ==
    /\ pc = "d_http"
    /\ ~client_ok => resp = HttpFailure
    /\ probes' = IF client_ok THEN Append(probes, Probe("http", resp)) ELSE probes
    /\ DetectReturn(Ok(ProbedResult(call.id, client_ok /\ HttpReady(resp),
                                    call.process_info)))
    /\ UNCHANGED <<store, others>>
    /\ UNCHANGED <<creds, os, pure>>

(***************************************************************************)
(* detect_all_instances_status (instance.rs 1549-1576)                     *)
(***************************************************************************)
CallDetectAll ==
    /\ pc = "idle"
    /\ probes' = <<>>
    /\ IF store = <<>>
       THEN /\ ret' = Returned("detect_all", "", Ok(<<>>))
            /\ batch' = NoBatch
            /\ UNCHANGED <<pc, call>>
       ELSE /\ pc' = "d_load"
            /\ call' = [NoCall EXCEPT !.op = "detect", !.id = store[1].id]
            /\ batch' = [ active |-> TRUE,
                          ids |-> [i \in 1..Len(store) |-> store[i].id],
                          results |-> <<>> ]
            /\ ret' = NoRet
    /\ others' = 0
    /\ UNCHANGED store
    /\ UNCHANGED <<creds, os, pure>>


(***************************************************************************)
(* Credentials (instance.rs 1253-1337).  The creds variable is the         *)
(* .credentials file: absent, unreadable, not parseable as JSON, or a JSON *)
(* map from instance id to (username, password).                           *)
(***************************************************************************)
\* Usernames and passwords that callers store.
Usernames == {"admin", "deploy"}
Passwords == {"admin", "s3cret"}

NoEntries == [id \in Ids |-> None]

NoFile == [state |-> "missing", entries |-> NoEntries]

\* load_stored_credentials
LoadStoredCredentials(file, instance_id) ==
    IF file.state = "missing" THEN Ok(None)
    ELSE IF file.state = "unreadable" THEN Err(<<"read error">>)
    ELSE IF file.state = "unparseable" THEN Err(<<"parse error">>)
    ELSE Ok(file.entries[instance_id])

GetInstanceCredentialsBroken(file, instance_id, default_username) ==
    LET username == IF default_username = None THEN "admin" ELSE default_username[1]
        stored == LoadStoredCredentials(file, instance_id)
    IN  IF ~stored.ok THEN stored
        ELSE IF stored.val # None THEN Ok(<<username, stored.val[1][2]>>)
        ELSE Ok(<<username, "admin">>)

\* get_instance_credentials: the username is the declared one or "admin";
\* of a stored pair only the password is used.
GetInstanceCredentials(file, instance_id, default_username) ==
    LET username == IF default_username = None THEN "admin" ELSE default_username[1]
        stored == LoadStoredCredentials(file, instance_id)
    IN  IF stored.ok /\ stored.val # None
        THEN Ok(<<username, stored.val[1][2]>>)
        ELSE Ok(<<username, "admin">>)

\* save_stored_credentials: the file after the call.  A file that cannot be
\* read fails the call; one that cannot be parsed is replaced by a new map.
SaveStoredCredentials(file, instance_id, username, password) ==
    IF file.state = "unreadable" THEN file
    ELSE [ state |-> "json",
           entries |-> [ (IF file.state = "json" THEN file.entries ELSE NoEntries)
                           EXCEPT ![instance_id] = Some(<<username, password>>) ] ]

\* delete_credentials: the file after the call
DeleteCredentials(file, instance_id) ==
    IF file.state = "json"
    THEN [file EXCEPT !.entries[instance_id] = None]
    ELSE file

(***************************************************************************)
(* check_instance_health (instance.rs 1056-1148)                           *)
(***************************************************************************)
\* A bundles.json body: whether it is JSON at all, its "data" array when it
\* has one, and per bundle its "state" string when it has one.
BundleBody(json, data) == [json |-> json, data |-> data]

CountStateBroken(bundles, state) ==
    Cardinality({i \in 1..Len(bundles) : bundles[i] \in {Some(state), Some("Fragment")}})

\* the arm of `match bundle.get("state")?.as_str()?` that counts `state`
CountState(bundles, state) ==
    Cardinality({i \in 1..Len(bundles) : bundles[i] = Some(state)})

\* parse_bundle_response
ParseBundleResponse(body) ==
    IF ~body.json \/ body.data = None
    THEN None
    ELSE LET bundles == body.data[1]
         IN  IF \E i \in 1..Len(bundles) : bundles[i] = None
             THEN None
             ELSE Some([ total |-> Len(bundles),
                         active |-> CountState(bundles, "Active"),
                         resolved |-> CountState(bundles, "Resolved"),
                         installed |-> CountState(bundles, "Installed") ])

BundleBodies ==
    { BundleBody(FALSE, None),
      BundleBody(TRUE, Some(<<Some("Active"), Some("Resolved"), Some("Fragment")>>)) }

BundlesResponse(code, body) == [ok |-> TRUE, code |-> code, body |-> body]
BundlesFailure == [ok |-> FALSE, code |-> 0, body |-> BundleBody(FALSE, None)]

BundlesOutcomes ==
    {BundlesFailure}
        \cup {BundlesResponse(c, BundleBody(FALSE, None)) : c \in {401, 404}}
        \cup {BundlesResponse(200, b) : b \in BundleBodies}

\* What fetch_memory_status and fetch_version_info may yield.
MemoryOutcomes ==
    {None, Some([heap_used |-> 512, heap_max |-> 1024, heap_percentage |-> 50])}

VersionOutcomes ==
    {None, Some([product_version |-> "6.5.0", oak_version |-> Some("1.22")])}

IsSuccessBroken(resp) == resp.ok /\ resp.code >= 200 /\ resp.code <= 499

\* resp.status().is_success()
IsSuccess(resp) == resp.ok /\ resp.code >= 200 /\ resp.code <= 299

BundlesStatusBroken(resp) == IF IsSuccess(resp) THEN "Running" ELSE "Stopped"

\* the status arm of the match on bundles_response
BundlesStatus(resp) ==
    IF IsSuccess(resp) THEN "Running"
    ELSE IF resp.ok /\ resp.code = 401 THEN "Running"
    ELSE "Stopped"

HealthCheckResultBroken(id, status, bundle_status, memory_status, version_info) ==
    [ instance_id |-> id, status |-> status, response_time |-> Some("elapsed"),
      bundle_status |-> bundle_status,
      memory_status |-> IF bundle_status = None THEN None ELSE memory_status,
      aem_version |-> IF version_info = None THEN None
                      ELSE Some(version_info[1].product_version),
      oak_version |-> IF version_info = None THEN None
                      ELSE version_info[1].oak_version ]

HealthCheckResult(id, status, bundle_status, memory_status, version_info) ==
    [ instance_id |-> id, status |-> status, response_time |-> Some("elapsed"),
      bundle_status |-> bundle_status, memory_status |-> memory_status,
      aem_version |-> IF version_info = None THEN None
                      ELSE Some(version_info[1].product_version),
      oak_version |-> IF version_info = None THEN None
                      ELSE version_info[1].oak_version ]

\* instance.status = status; instance.updated_at = now, on the command's own
\* copy of the store
WithHealthStatus(instances, id, status) ==
    [instances EXCEPT ![Position(instances, id)].status = status,
                      ![Position(instances, id)].updated_at = UtcNow]

\* The tail of check_instance_health: cache the status, save the command's
\* copy of the store, return the result.
HealthReturn(status, bundle_status, memory_status, version_info) ==
    /\ store' = WithHealthStatus(call.instances, call.id, status)
    /\ ret' = Returned("health", call.id,
                       Ok(HealthCheckResult(call.id, status, bundle_status,
                                            memory_status, version_info)))
    /\ pc' = "idle"
    /\ call' = NoCall

ClientError == <<"builder error">>

\* A caller invokes check_instance_health(id): load_instances, lookup,
\* credentials, HTTP client.
CallHealth(id, client_ok) ==
    /\ pc = "idle"
    /\ probes' = <<>>
    /\ others' = 0
    /\ IF Position(store, id) = 0
       THEN /\ ret' = Returned("health", id, Err(NotFound(id)))
            /\ UNCHANGED <<pc, call>>
       ELSE IF ~GetInstanceCredentials(creds, id, None).ok
       THEN /\ ret' = Returned("health", id, GetInstanceCredentials(creds, id, None))
            /\ UNCHANGED <<pc, call>>
       ELSE IF ~client_ok
       THEN /\ ret' = Returned("health", id, Err(ClientError))
            /\ UNCHANGED <<pc, call>>
       ELSE /\ pc' = "h_bundles"
            /\ call' = [NoCall EXCEPT !.op = "health", !.id = id, !.instances = store,
                                      !.auth = Some(GetInstanceCredentials(creds, id, None).val)]
            /\ ret' = NoRet
    /\ batch' = NoBatch
    /\ UNCHANGED <<store, creds, os, pure>>

\* The answer to GET /system/console/bundles.json
HealthBundles(resp) ==
    /\ pc = "h_bundles"
    /\ probes' = Append(probes, Probe("bundles", resp))
    /\ IF IsSuccess(resp)
       THEN /\ pc' = "h_memory"
            /\ call' = [call EXCEPT !.status = BundlesStatus(resp),
                                    !.bundle_status = ParseBundleResponse(resp.body)]
            /\ UNCHANGED <<store, ret>>
       ELSE IF BundlesStatus(resp) = "Running"
       THEN /\ pc' = "h_version"
            /\ call' = [call EXCEPT !.status = BundlesStatus(resp)]
            /\ UNCHANGED <<store, ret>>
       ELSE HealthReturn(BundlesStatus(resp), None, None, None)
    /\ UNCHANGED <<batch, others>>
    /\ UNCHANGED <<creds, os, pure>>

\* fetch_memory_status
HealthMemory(memory) ==
    /\ pc = "h_memory"
    /\ probes' = Append(probes, Probe("memory", memory))
    /\ pc' = "h_version"
    /\ call' = [call EXCEPT !.memory_status = memory]
    /\ UNCHANGED <<store, batch, ret, others>>
    /\ UNCHANGED <<creds, os, pure>>

\* fetch_version_info, then the tail of the command
HealthVersion(version_info) ==
    /\ pc = "h_version"
    /\ probes' = Append(probes, Probe("version", version_info))
    /\ HealthReturn(call.status, call.bundle_status, call.memory_status, version_info)
    /\ UNCHANGED <<batch, others>>
    /\ UNCHANGED <<creds, os, pure>>

(***************************************************************************)
(* stop_instance (instance.rs 1006-1048)                                   *)
(***************************************************************************)
ShutdownOutcomes == {HttpFailure} \cup {HttpResponse(c) : c \in {200, 401, 500}}

\* pids platform.get_process_by_port may come back with
PidOutcomes == {None, Some(900), Some(555)}

\* How the two kill commands of platform.kill_process may go: whether the
\* first could be run and its exit status, and whether the second could be.
KillOutcomes ==
    { [term |-> "spawn_error", force |-> "unused"],
      [term |-> "success", force |-> "unused"],
      [term |-> "failure", force |-> "spawn_error"],
      [term |-> "failure", force |-> "ran"] }

\* The same outcomes with what becomes of the process: whether it is still
\* alive after the first command (an exit status of zero says the signal was
\* delivered, not that the process ended; a failure says it was not
\* delivered, to a process that is gone or that the caller may not signal),
\* and whether it is alive when kill_process returns (the forced kill may
\* itself fail, its exit status is not read).
KillEffects ==
    { [term |-> "spawn_error", survived_term |-> TRUE, force |-> "unused", alive |-> TRUE] }
    \cup { [term |-> "success", survived_term |-> a, force |-> "unused", alive |-> a] :
              a \in BOOLEAN }
    \cup { [term |-> "failure", survived_term |-> a, force |-> "spawn_error", alive |-> a] :
              a \in BOOLEAN }
    \cup { [term |-> "failure", survived_term |-> TRUE, force |-> "ran", alive |-> a] :
              a \in BOOLEAN }
    \cup { [term |-> "failure", survived_term |-> FALSE, force |-> "ran", alive |-> FALSE] }

\* PlatformOps::kill_process (linux.rs 199-214, macos.rs 177-192)
KillProcess(pid, k) ==
    IF k.term = "spawn_error" THEN Err(<<"Failed to kill process">>)
    ELSE IF k.term = "success" THEN Ok(TRUE)
    ELSE IF k.force = "spawn_error" THEN Err(<<"Failed to force kill process">>)
    ELSE Ok(TRUE)

WithStatus(instances, id, status) ==
    [instances EXCEPT ![Position(instances, id)].status = status]

ShutdownSentBroken(http_result) == IsSuccess(http_result)

\* http_result.is_ok(): the POST got a response, whatever its status
ShutdownSent(http_result) == http_result.ok

NoProcessFound == <<"Could not stop instance: no process found">>

\* A caller invokes stop_instance(id): load_instances, lookup, credentials,
\* HTTP client.
CallStop(id, client_ok) ==
    /\ pc = "idle"
    /\ probes' = <<>>
    /\ others' = 0
    /\ IF Position(store, id) = 0
       THEN /\ ret' = Returned("stop", id, Err(NotFound(id)))
            /\ UNCHANGED <<pc, call>>
       ELSE IF ~GetInstanceCredentials(creds, id, None).ok
       THEN /\ ret' = Returned("stop", id, GetInstanceCredentials(creds, id, None))
            /\ UNCHANGED <<pc, call>>
       ELSE IF ~client_ok
       THEN /\ ret' = Returned("stop", id, Err(ClientError))
            /\ UNCHANGED <<pc, call>>
       ELSE /\ pc' = "s_post"
            /\ call' = [NoCall EXCEPT !.op = "stop", !.id = id, !.instances = store,
                                      !.auth = Some(GetInstanceCredentials(creds, id, None).val)]
            /\ ret' = NoRet
    /\ batch' = NoBatch
    /\ UNCHANGED <<store, creds, os, pure>>

\* The outcome of POST /system/console/vmstat?shutdown_type=Stop
StopPost(http_result) ==
    /\ pc = "s_post"
    /\ probes' = Append(probes, Probe("shutdown", http_result))
    /\ IF ShutdownSent(http_result)
       THEN /\ store' = WithStatus(call.instances, call.id, "Stopping")
            /\ ret' = Returned("stop", call.id, Ok(TRUE))
            /\ pc' = "idle"
            /\ call' = NoCall
       ELSE /\ pc' = "s_fallback"
            /\ UNCHANGED <<store, ret, call>>
    /\ UNCHANGED <<batch, others>>
    /\ UNCHANGED <<creds, os, pure>>

FallbackResultBroken(pid, k) ==
    IF pid = None THEN Ok(TRUE) ELSE KillProcess(pid[1], k)

\* The arms of `if let Some(pid) = platform.get_process_by_port(port)`
FallbackResult(pid, k) ==
    IF pid = None THEN Err(NoProcessFound) ELSE KillProcess(pid[1], k)

\* The fallback: get_process_by_port, kill_process, cache Stopped.  Without
\* a pid nothing is killed, so one kill outcome stands for all.
StopFallback(pid, k) ==
    /\ pc = "s_fallback"
    /\ pid = None => k.term = "spawn_error"
    /\ pc' = "idle"
    /\ call' = NoCall
    /\ probes' = IF pid = None
                 THEN Append(probes, Probe("pid_lookup", pid))
                 ELSE probes \o <<Probe("pid_lookup", pid), Probe("kill", k)>>
    /\ IF FallbackResult(pid, k).ok
       THEN /\ store' = WithStatus(call.instances, call.id, "Stopped")
            /\ ret' = Returned("stop", call.id, Ok(TRUE))
       ELSE /\ ret' = Returned("stop", call.id, FallbackResult(pid, k))
            /\ UNCHANGED store
    /\ UNCHANGED <<batch, others>>
    /\ UNCHANGED <<creds, os, pure>>

(***************************************************************************)
(* PlatformOps::get_process_by_port (linux.rs 216-254, macos.rs 194-206,   *)
(* windows.rs 228-247).  The os variable is the platform the program was   *)
(* built for, whether lsof can be run, and the TCP sockets of the machine. *)
(***************************************************************************)
Platforms == {"linux", "macos", "windows"}

Socket(pid, state, local, remote) ==
    [pid |-> pid, state |-> state, local |-> local, remote |-> remote]

\* The sockets a machine may hold: the instance listening on its port, a
\* client connected to that port, and a listener on a port whose decimal
\* text starts with the text of the instance's port.
AemListener == Socket(900, "LISTEN", 4502, 0)
ClientConnection == Socket(555, "ESTABLISHED", 51000, 4502)
NeighbourListener == Socket(777, "LISTEN", 45020, 0)

SocketTables == SUBSET {AemListener, ClientConnection, NeighbourListener}

NoOs == [platform |-> "linux", lsof |-> TRUE, sockets |-> {}]

DigitChars == <<"0", "1", "2", "3", "4", "5", "6", "7", "8", "9">>

RECURSIVE Digits(_)
\* format!("{}", n) of an unsigned number
Digits(n) ==
    IF n < 10 THEN <<DigitChars[n + 1]>>
    ELSE Digits(n \div 10) \o <<DigitChars[(n % 10) + 1]>>

\* `lsof -ti :port`: the pids of the processes holding an Internet socket
\* with that port at either end, in any state.
LsofPids(sockets, port) ==
    {s.pid : s \in {t \in sockets : t.local = port \/ t.remote = port}}

\* `ss -tlnp "sport = :port"`: the pids of the listeners on that port
SsPids(sockets, port) ==
    {s.pid : s \in {t \in sockets : t.state = "LISTEN" /\ t.local = port}}

\* A line of `netstat -ano`: local address, foreign address, state, pid
NetstatLine(s) ==
    <<"T", "C", "P", " ", "0", ".", "0", ".", "0", ".", "0", ":">> \o Digits(s.local)
    \o <<" ", "0", ".", "0", ".", "0", ".", "0", ":">> \o Digits(s.remote)
    \o <<" ", IF s.state = "LISTEN" THEN "LISTENING" ELSE "ESTABLISHED", " ">>
    \o Digits(s.pid)

\* The pids of the netstat lines that contain ":port" and "LISTENING"
NetstatPids(sockets, port) ==
    {s.pid : s \in {t \in sockets :
                       /\ Contains(NetstatLine(t), <<":">> \o Digits(port))
                       /\ Contains(NetstatLine(t), <<"LISTENING">>)}}

FirstOf(pids) == IF pids = {} THEN {None} ELSE {Some(p) : p \in pids}

\* get_process_by_port: the pids it can come back with.  Each tool prints
\* the sockets in the order of the system's tables and the first pid
\* printed is taken, so every pid printed is a possible answer.
GetProcessByPort(o, port) ==
    IF o.platform = "windows" THEN FirstOf(NetstatPids(o.sockets, port))
    ELSE IF o.platform = "macos"
    THEN IF o.lsof THEN FirstOf(LsofPids(o.sockets, port)) ELSE {None}
    ELSE IF o.lsof /\ LsofPids(o.sockets, port) # {}
    THEN FirstOf(LsofPids(o.sockets, port))
    ELSE FirstOf(SsPids(o.sockets, port))

\* `lsof -ti TCP:port -sTCP:LISTEN`: the pids of the listeners on that port
LsofListenPids(sockets, port) ==
    {s.pid : s \in {t \in sockets : t.state = "LISTEN" /\ t.local = port}}

\* The name `ps -p pid -o comm=` or `tasklist /FI "PID eq pid"` prints
ProcessName(pid) == IF pid = 900 THEN NameJava ELSE NameNginx

NamedFirstOf(pids) ==
    IF pids = {} THEN {None} ELSE {Some(<<p, ProcessName(p)>>) : p \in pids}

\* get_process_info_by_port (instance.rs 1366-1443): the answers it can come
\* back with.  Only the macOS and the Windows build look anything up.
GetProcessInfoByPort(o, port) ==
    IF o.platform = "macos"
    THEN IF o.lsof THEN NamedFirstOf(LsofListenPids(o.sockets, port)) ELSE {None}
    ELSE IF o.platform = "windows"
    THEN NamedFirstOf(NetstatPids(o.sockets, port))
    ELSE {None}

\* get_process_info_by_port(port) over the current sockets
ApplyGetProcessInfoByPort(port, process_info) ==
    /\ process_info \in GetProcessInfoByPort(os, port)
    /\ pure' = [fn |-> "get_process_info_by_port", arg |-> port, out |-> Some(process_info)]
    /\ UNCHANGED <<store, pc, call, batch, probes, ret, others, creds, os>>

\* The sockets of the machine change.
SocketsChange(sockets) ==
    /\ os' = [os EXCEPT !.sockets = sockets]
    /\ os' # os
    /\ UNCHANGED <<store, pc, call, batch, probes, ret, others, creds, pure>>

(***************************************************************************)
(* Instance CRUD (instance.rs 178-238), run by other callers               *)
(***************************************************************************)
\* At most MaxOthers commands of other callers complete while one command
\* of the detection / health / stop family is in flight.
MaxOthers == 1

OtherCaller ==
    /\ pc # "idle" => others < MaxOthers
    /\ others' = IF pc # "idle" THEN others + 1 ELSE others
    /\ UNCHANGED <<pc, call, batch, probes, ret, os>>

\* What add_instance, update_instance and delete_instance return is kept in
\* pure, as <<command, id>> and the value, in the behaviours that start
\* with pure = NoReply; in the others it is dropped.
NoReply == [fn |-> "reply", arg |-> <<>>, out |-> <<>>]

Reply(command, id, r) ==
    IF pure.fn = "reply"
    THEN [fn |-> "reply", arg |-> <<command, id>>, out |-> Some(r)]
    ELSE pure

\* add_instance: an empty id is replaced by a fresh uuid, a duplicate id is
\* refused, the status is forced to Unknown.
AddInstance(given_id, fresh_id, pl) ==
    LET id == IF given_id = "" THEN fresh_id ELSE given_id
    IN  /\ given_id = "" => Position(store, fresh_id) = 0
        /\ given_id # "" => fresh_id = given_id
        /\ store' = IF Position(store, id) # 0
                    THEN store
                    ELSE Append(store, AemInstance(id, pl, "Unknown", "t0"))
        /\ pure' = Reply("add_instance", id,
                         IF Position(store, id) # 0
                         THEN Err(<<"Instance with ID ", id, " already exists">>)
                         ELSE Ok(AemInstance(id, pl, "Unknown", "t0")))
        /\ OtherCaller
        /\ UNCHANGED creds

\* The id that the payload of update_instance carries
PayloadId == "b"

UpdatedInstanceBroken(id, pl, status) == AemInstance(PayloadId, pl, status, "t0")

\* instance.id = id: the payload with its id overwritten by the addressed one
UpdatedInstance(id, pl, status) ==
    [AemInstance(PayloadId, pl, status, "t0") EXCEPT !.id = id]

\* update_instance: the record at the id's position is replaced by the
\* payload, whose id is overwritten by the addressed one.
UpdateInstance(id, pl, status) ==
    /\ store' = IF Position(store, id) = 0
                THEN store
                ELSE [store EXCEPT ![Position(store, id)] =
                                       UpdatedInstance(id, pl, status)]
    /\ pure' = Reply("update_instance", id,
                     IF Position(store, id) = 0
                     THEN Err(NotFound(id))
                     ELSE Ok(UpdatedInstance(id, pl, status)))
    /\ OtherCaller
    /\ UNCHANGED creds

\* delete_instance: the credentials of a deleted instance are deleted too.
DeleteInstance(id) ==
    /\ store' = IF Len(Retain(store, id)) = Len(store)
                THEN store
                ELSE Retain(store, id)
    /\ creds' = IF Len(Retain(store, id)) = Len(store)
                THEN creds
                ELSE DeleteCredentials(creds, id)
    /\ pure' = Reply("delete_instance", id,
                     IF Len(Retain(store, id)) = Len(store)
                     THEN Err(NotFound(id))
                     ELSE Ok(TRUE))
    /\ OtherCaller

\* store_credentials
StoreCredentials(instance_id, username, password) ==
    /\ creds' = SaveStoredCredentials(creds, instance_id, username, password)
    /\ OtherCaller
    /\ UNCHANGED <<store, pure>>

\* The .credentials file is removed, made unreadable or overwritten with
\* text that is not JSON, from outside the program.
CredentialsFileDamaged(state) ==
    /\ creds' = [state |-> state, entries |-> NoEntries]
    /\ creds' # creds
    /\ UNCHANGED <<store, pc, call, batch, probes, ret, others, os, pure>>

(***************************************************************************)
(* Functions applied on their own: pure holds the function, its arguments  *)
(* and its value.                                                          *)
(***************************************************************************)
NoPure == [fn |-> "none", arg |-> <<>>, out |-> <<>>]

\* get_instance_credentials(instance_id, default_username) over the
\* current .credentials file
ApplyGetInstanceCredentials(instance_id, default_username) ==
    /\ pure' = [ fn |-> "get_instance_credentials",
                 arg |-> <<instance_id, default_username>>,
                 out |-> Some(GetInstanceCredentials(creds, instance_id, default_username)) ]
    /\ UNCHANGED <<store, pc, call, batch, probes, ret, others, creds, os>>

\* Bundle listings: per bundle its "state" string, or None without one.
MaxBundles == 3

BundleStates == {"Active", "Resolved", "Installed", "Fragment"}

RECURSIVE Listings(_)
Listings(n) ==
    IF n = 0 THEN {<<>>}
    ELSE Listings(n - 1)
         \cup {Append(l, b) : l \in {m \in Listings(n - 1) : Len(m) = n - 1},
                              b \in {None} \cup {Some(st) : st \in BundleStates}}

ParseInputs ==
    {BundleBody(FALSE, None), BundleBody(TRUE, None)}
    \cup {BundleBody(TRUE, Some(l)) : l \in Listings(MaxBundles)}

\* parse_bundle_response(response) of the body drawn
ApplyParseBundleResponse ==
    /\ pure.fn = "parse_bundle_response"
    /\ pure.out = None
    /\ pure' = [pure EXCEPT !.out = Some(ParseBundleResponse(pure.arg))]
    /\ UNCHANGED <<store, pc, call, batch, probes, ret, others, creds, os>>

(***************************************************************************)
(* check_port_open (instance.rs 1344-1362) with the time it waits          *)
(***************************************************************************)
\* The timeout detect_instance_status gives the port probe, in ms
PortTimeoutMs == 500

\* Socket addresses a host name may resolve to
MaxAddrs == 3

\* How connect_timeout to one address may go: connected or refused at once
\* or after a while, or given up when the timeout expires.
ConnectOutcomes ==
    { [ok |-> TRUE, ms |-> t] : t \in {0, 100} }
    \cup { [ok |-> FALSE, ms |-> t] : t \in {0, 100, PortTimeoutMs} }

RECURSIVE AddrLists(_)
AddrLists(n) ==
    IF n = 0 THEN {<<>>}
    ELSE AddrLists(n - 1)
         \cup {Append(l, c) : l \in {m \in AddrLists(n - 1) : Len(m) = n - 1},
                              c \in ConnectOutcomes}

\* to_socket_addrs: an error, or the addresses in the order they are tried
Resolutions == {None} \cup {Some(l) : l \in AddrLists(MaxAddrs)}

RECURSIVE TryEach(_, _)
\* `for socket_addr in addrs`: each address is given the whole timeout
TryEach(addrs, waited) ==
    IF addrs = <<>> THEN [open |-> FALSE, waited |-> waited]
    ELSE IF Head(addrs).ok THEN [open |-> TRUE, waited |-> waited + Head(addrs).ms]
    ELSE TryEach(Tail(addrs), waited + Head(addrs).ms)

\* check_port_open(host, port, timeout_ms): its value and the time it waited
\* in connect_timeout
CheckPortOpen(resolved) ==
    IF resolved = None THEN [open |-> FALSE, waited |-> 0]
    ELSE TryEach(resolved[1], 0)

\* check_port_open of the resolution drawn
ApplyCheckPortOpen ==
    /\ pure.fn = "check_port_open"
    /\ pure.out = None
    /\ pure' = [pure EXCEPT !.out = Some(CheckPortOpen(pure.arg))]
    /\ UNCHANGED <<store, pc, call, batch, probes, ret, others, creds, os>>

(***************************************************************************)
(* fetch_memory_status and extract_memory_value (instance.rs 1151-1199)    *)
(***************************************************************************)
LabelUsed ==
    <<"H", "e", "a", "p", " ", "M", "e", "m", "o", "r", "y", " ", "u", "s", "e", "d">>

LabelMaximum ==
    <<"H", "e", "a", "p", " ", "M", "e", "m", "o", "r", "y", " ", "m", "a", "x", "i", "m", "u", "m">>

IsAsciiDigit(c) == \E i \in 1..10 : DigitChars[i] = c

DigitValue(c) == (CHOOSE i \in 1..10 : DigitChars[i] = c) - 1

\* text.find(label): the first place where the label starts
Find(text, label) ==
    IF Contains(text, label)
    THEN Some(CHOOSE i \in 1..Len(text) :
                 /\ i + Len(label) - 1 <= Len(text)
                 /\ SubSeq(text, i, i + Len(label) - 1) = label
                 /\ \A j \in 1..(i - 1) : SubSeq(text, j, j + Len(label) - 1) # label)
    ELSE None

RECURSIVE SkipNonDigits(_)
\* .skip_while(|c| !c.is_ascii_digit())
SkipNonDigits(s) ==
    IF s = <<>> \/ IsAsciiDigit(Head(s)) THEN s ELSE SkipNonDigits(Tail(s))

RECURSIVE TakeNumberBroken(_)
TakeNumberBroken(s) ==
    IF s = <<>> \/ ~IsAsciiDigit(Head(s)) THEN <<>>
    ELSE <<Head(s)>> \o TakeNumberBroken(Tail(s))

RECURSIVE TakeNumber(_)
\* .take_while(|c| c.is_ascii_digit() || *c == '.')
TakeNumber(s) ==
    IF s = <<>> \/ ~(IsAsciiDigit(Head(s)) \/ Head(s) = ".") THEN <<>>
    ELSE <<Head(s)>> \o TakeNumber(Tail(s))

RECURSIVE Decimal(_)
\* The number a run of digits writes
Decimal(s) == IF s = <<>> THEN 0 ELSE Decimal(SubSeq(s, 1, Len(s) - 1)) * 10 + DigitValue(s[Len(s)])

RECURSIVE Pow10(_)
Pow10(k) == IF k = 0 THEN 1 ELSE 10 * Pow10(k - 1)

Dots(s) == {i \in 1..Len(s) : s[i] = "."}

\* numbers.parse::<f64>() of a run of digits and dots that starts with a
\* digit, as the fraction [num / den]: digits, then at most one dot with
\* any digits after it.
ParseF64(s) ==
    IF s = <<>> \/ Cardinality(Dots(s)) > 1 THEN None
    ELSE IF Dots(s) = {} THEN Some([num |-> Decimal(s), den |-> 1])
    ELSE LET d == CHOOSE i \in Dots(s) : TRUE
         IN  Some([ num |-> Decimal(SubSeq(s, 1, d - 1) \o SubSeq(s, d + 1, Len(s))),
                    den |-> Pow10(Len(s) - d) ])

\* (n * 1024.0 * 1024.0) as u64: the product, truncated
MbToBytes(n) == (n.num * 1024 * 1024) \div n.den

\* extract_memory_value
ExtractMemoryValue(text, label) ==
    IF Find(text, label) = None THEN None
    ELSE LET after == SubSeq(text, Find(text, label)[1], Len(text))
             numbers == TakeNumber(SkipNonDigits(after))
         IN  IF ParseF64(numbers) = None THEN None
             ELSE Some(MbToBytes(ParseF64(numbers)[1]))

RECURSIVE Gcd(_, _)
Gcd(a, b) == IF b = 0 THEN a ELSE Gcd(b, a % b)

\* (heap_used as f32 / heap_max as f32) * 100.0, kept as the fraction in
\* lowest terms; 0.0 when heap_max is 0
HeapPercentage(heap_used, heap_max) ==
    IF heap_max > 0
    THEN [ num |-> (heap_used * 100) \div Gcd(heap_used * 100, heap_max),
           den |-> heap_max \div Gcd(heap_used * 100, heap_max) ]
    ELSE [num |-> 0, den |-> 1]

\* fetch_memory_status, from the body of the answer of the memoryusage
\* page: None when the request failed or the body could not be read
FetchMemoryStatus(body) ==
    IF body = None THEN None
    ELSE IF ExtractMemoryValue(body[1], LabelUsed) = None THEN None
    ELSE IF ExtractMemoryValue(body[1], LabelMaximum) = None THEN None
    ELSE Some([ heap_used |-> ExtractMemoryValue(body[1], LabelUsed)[1],
                heap_max |-> ExtractMemoryValue(body[1], LabelMaximum)[1],
                heap_percentage |->
                    HeapPercentage(ExtractMemoryValue(body[1], LabelUsed)[1],
                                   ExtractMemoryValue(body[1], LabelMaximum)[1]) ])

\* What may follow a label: nothing, whole and fractional numbers of MB,
\* and a run that is not a number.
NumberTexts ==
    { <<>>, <<"0">>, <<"1">>, <<"2">>, <<"1", ".", "5">>, <<"1", ".", "2", ".", "3">> }

\* The text of a memoryusage page: two lines, each with or without its
\* label and with or without a number.
MemoryPage(used_label, used_number, maximum_label, maximum_number) ==
    (IF used_label THEN LabelUsed ELSE <<"H", "e", "a", "p">>)
    \o <<":", " ">> \o used_number \o <<" ", "M", "B", "\n">>
    \o (IF maximum_label THEN LabelMaximum ELSE <<"N", "o", "n", "-", "h", "e", "a", "p">>)
    \o <<":", " ">> \o maximum_number \o <<" ", "M", "B">>

MemoryInputs ==
    { [ body |-> None, used_label |-> FALSE, used_number |-> <<>>,
        maximum_label |-> FALSE, maximum_number |-> <<>> ] }
    \cup { [ body |-> Some(MemoryPage(ul, un, ml, mn)), used_label |-> ul,
             used_number |-> un, maximum_label |-> ml, maximum_number |-> mn ] :
              ul \in BOOLEAN, un \in NumberTexts, ml \in BOOLEAN, mn \in NumberTexts }

\* extract_memory_value of both labels and fetch_memory_status of the body
\* drawn
ApplyFetchMemoryStatus ==
    /\ pure.fn = "fetch_memory_status"
    /\ pure.out = None
    /\ pure' = [pure EXCEPT !.out =
                   Some([ used |-> IF pure.arg.body = None THEN None
                                   ELSE ExtractMemoryValue(pure.arg.body[1], LabelUsed),
                          maximum |-> IF pure.arg.body = None THEN None
                                      ELSE ExtractMemoryValue(pure.arg.body[1], LabelMaximum),
                          memory_status |-> FetchMemoryStatus(pure.arg.body) ])]
    /\ UNCHANGED <<store, pc, call, batch, probes, ret, others, creds, os>>

(***************************************************************************)
(* Specification                                                           *)
(***************************************************************************)
\* No instance is stored and no command is in flight.
NoCommand ==
    /\ store = <<>>
    /\ pc = "idle"
    /\ call = NoCall
    /\ batch = NoBatch
    /\ probes = <<>>
    /\ ret = NoRet
    /\ others = 0

Init ==
    /\ NoCommand
    /\ creds = NoFile
    /\ os = NoOs
    /\ pure = NoPure

Crud ==
    \/ \E given_id \in Ids \cup {""}, fresh_id \in Ids, pl \in Payloads :
           AddInstance(given_id, fresh_id, pl)
    \/ \E id \in Ids, pl \in Payloads, status \in PayloadStatuses :
           UpdateInstance(id, pl, status)
    \/ \E id \in Ids : DeleteInstance(id)

Detect ==
    \/ \E id \in Ids : CallDetect(id)
    \/ DetectLoad
    \/ \E port_open \in BOOLEAN : DetectPort(port_open)
    \/ \E process_info \in LookupOutcomes : DetectProcess(process_info)
    \/ \E client_ok \in BOOLEAN, resp \in LoginOutcomes : DetectHttp(client_ok, resp)
    \/ CallDetectAll

Health ==
    \/ \E id \in Ids, client_ok \in BOOLEAN : CallHealth(id, client_ok)
    \/ \E resp \in BundlesOutcomes : HealthBundles(resp)
    \/ \E memory \in MemoryOutcomes : HealthMemory(memory)
    \/ \E version_info \in VersionOutcomes : HealthVersion(version_info)

Stop ==
    \/ \E id \in Ids, client_ok \in BOOLEAN : CallStop(id, client_ok)
    \/ \E http_result \in ShutdownOutcomes : StopPost(http_result)
    \/ \E pid \in PidOutcomes, k \in KillOutcomes : StopFallback(pid, k)

\* Callers that detect
NextDetect == Crud \/ Detect

SpecDetect == Init /\ [][NextDetect]_vars

\* Callers that check health and stop
NextLifecycle == Crud \/ Health \/ Stop

SpecLifecycle == Init /\ [][NextLifecycle]_vars

\* Callers that detect one instance, check health and stop
DetectOne ==
    \/ \E id \in Ids : CallDetect(id)
    \/ DetectLoad
    \/ \E port_open \in BOOLEAN : DetectPort(port_open)
    \/ \E process_info \in LookupOutcomes : DetectProcess(process_info)
    \/ \E client_ok \in BOOLEAN, resp \in LoginOutcomes : DetectHttp(client_ok, resp)

NextCommands == Crud \/ DetectOne \/ Health \/ Stop

SpecCommands == Init /\ [][NextCommands]_vars

\* stop_instance on each platform, over the sockets of the machine
InitFallback ==
    /\ NoCommand
    /\ creds = NoFile
    /\ os \in {[platform |-> p, lsof |-> l, sockets |-> {}] :
                   p \in Platforms, l \in BOOLEAN}
    /\ pure = NoPure

NextFallback ==
    \/ \E pl \in Payloads : AddInstance("a", "a", pl)
    \/ \E sockets \in SocketTables : SocketsChange(sockets)
    \/ \E client_ok \in BOOLEAN : CallStop("a", client_ok)
    \/ \E http_result \in ShutdownOutcomes : StopPost(http_result)
    \/ \E pid \in (IF pc = "s_fallback" THEN GetProcessByPort(os, Instance.port) ELSE {}),
          k \in KillEffects : StopFallback(pid, k)

SpecFallback == InitFallback /\ [][NextFallback]_vars

\* Callers that store credentials and stop or check instances
NextCredentials ==
    \/ \E id \in Ids, pl \in {q \in Payloads : q.port = 4502} : AddInstance(id, id, pl)
    \/ \E id \in Ids : DeleteInstance(id)
    \/ \E id \in Ids, u \in Usernames, p \in Passwords : StoreCredentials(id, u, p)
    \/ \E st \in {"missing", "unreadable", "unparseable"} : CredentialsFileDamaged(st)
    \/ \E id \in Ids, client_ok \in BOOLEAN : CallStop(id, client_ok)
    \/ \E http_result \in {HttpFailure, HttpResponse(200)} : StopPost(http_result)
    \/ \E k \in KillOutcomes : StopFallback(None, k)
    \/ \E id \in Ids, client_ok \in BOOLEAN : CallHealth(id, client_ok)
    \/ HealthBundles(BundlesFailure)

SpecCredentials == Init /\ [][NextCredentials]_vars

\* get_instance_credentials over every state of the .credentials file
NextResolve ==
    \/ \E id \in Ids, u \in Usernames, p \in Passwords : StoreCredentials(id, u, p)
    \/ \E st \in {"missing", "unreadable", "unparseable"} : CredentialsFileDamaged(st)
    \/ \E id \in Ids, default_username \in {None} \cup {Some(u) : u \in Usernames} :
           ApplyGetInstanceCredentials(id, default_username)

SpecResolve == Init /\ [][NextResolve]_vars

\* parse_bundle_response over the bundle listings
InitBundles ==
    /\ NoCommand
    /\ creds = NoFile
    /\ os = NoOs
    /\ pure \in {[fn |-> "parse_bundle_response", arg |-> b, out |-> None] : b \in ParseInputs}

NextBundles == ApplyParseBundleResponse

SpecBundles == InitBundles /\ [][NextBundles]_vars


\* check_port_open over the resolutions of a host name
InitPort ==
    /\ NoCommand
    /\ creds = NoFile
    /\ os = NoOs
    /\ pure \in {[fn |-> "check_port_open", arg |-> r, out |-> None] : r \in Resolutions}

NextPort == ApplyCheckPortOpen

SpecPort == InitPort /\ [][NextPort]_vars

\* get_process_info_by_port on each platform, over the sockets of the machine
NextLookup ==
    \/ \E sockets \in SocketTables : SocketsChange(sockets)
    \/ \E port \in {4502, 45020},
          process_info \in {None} \cup {Some(<<p, ProcessName(p)>>) : p \in {900, 555, 777}} :
           ApplyGetProcessInfoByPort(port, process_info)

SpecLookup == InitFallback /\ [][NextLookup]_vars

\* fetch_memory_status over the pages drawn
InitMemory ==
    /\ NoCommand
    /\ creds = NoFile
    /\ os = NoOs
    /\ pure \in {[fn |-> "fetch_memory_status", arg |-> m, out |-> None] : m \in MemoryInputs}

NextMemory == ApplyFetchMemoryStatus

SpecMemory == InitMemory /\ [][NextMemory]_vars

\* Callers that add, update and delete, with what the commands return
InitCrud ==
    /\ NoCommand
    /\ creds = NoFile
    /\ os = NoOs
    /\ pure = NoReply

SpecCrud == InitCrud /\ [][Crud]_vars

(***************************************************************************)
(* Properties                                                              *)
(***************************************************************************)
\* The listener names of ProcessInfos that the Java heuristic of the
\* specification accepts (a case-insensitive "java", "jdk" or "jre" inside),
\* and those it does not.
JavaLikeNames == {NameJava, NameOpenJdk}
NonJavaNames == {NameNginx}

ReadyCodes == {200, 302, 401}

DetectReturned == ret.op = "detect" /\ ret.ok

\* The probes of the returned detect_instance_status call, by layer.
PortProbed == Len(probes) >= 1 /\ probes[1].kind = "port"
LookedUp == Len(probes) >= 2 /\ probes[2].kind = "lookup"
HttpProbed == Len(probes) >= 3 /\ probes[3].kind = "http"

\* C1: a detect_instance_status call whose port probe reports closed returns
\* Stopped with process_id, process_name and error absent, and issues no
\* other probe: the port probe is the only one of the call, and no call is
\* ever past layer 1 with a closed port.
C1_ClosedPortStopped ==
    /\ (DetectReturned /\ PortProbed /\ ~probes[1].out.open) =>
          /\ ret.val.status = "Stopped"
          /\ ret.val.process_id = None
          /\ ret.val.process_name = None
          /\ ret.val.error = None
          /\ Len(probes) = 1
    /\ pc \in {"d_proc", "d_http"} => (PortProbed /\ probes[1].out.open)

C1_Witness ==
    /\ DetectReturned
    /\ probes = <<Probe("port", [port |-> 4502, open |-> FALSE])>>
    /\ ret.val.status = "Stopped"

\* C2: with the port open and a listener (pid, name) whose name is not
\* Java-like, detect_instance_status returns PortConflict with process_id =
\* pid, process_name = name and the error "Port <port> is occupied by
\* non-Java process: <name>"; the lookup is the last probe of the call, and
\* no call is ever at the HTTP layer with such a listener.
C2_NonJavaListenerConflict ==
    /\ (DetectReturned /\ LookedUp /\ probes[1].out.open /\ probes[2].out # None) =>
          LET pid == probes[2].out[1][1]
              name == probes[2].out[1][2]
          IN  name \in NonJavaNames =>
                 /\ ret.val.status = "PortConflict"
                 /\ ret.val.process_id = <<pid>>
                 /\ ret.val.process_name = <<name>>
                 /\ ret.val.error =
                        << <<"Port ", probes[1].out.port,
                             " is occupied by non-Java process: ", name>> >>
                 /\ Len(probes) = 2
    /\ (pc = "d_http" /\ call.process_info # None) =>
          call.process_info[1][2] \notin NonJavaNames

C2_Witness ==
    /\ DetectReturned
    /\ Len(probes) = 2
    /\ probes[2] = Probe("lookup", <<(<<555, NameNginx>>)>>)
    /\ ret.val.status = "PortConflict"
    /\ ret.val.process_id = <<555>>

\* C3: with the port open, a Java-like listener and a login page that
\* answers 200, 302 or 401, detect_instance_status returns Running.
C3_ReadyRunning ==
    (DetectReturned /\ HttpProbed /\ probes[1].out.open /\ probes[2].out # None) =>
        ((/\ probes[2].out[1][2] \in JavaLikeNames
          /\ probes[3].out.ok
          /\ probes[3].out.code \in ReadyCodes) => ret.val.status = "Running")

C3_Witness ==
    /\ DetectReturned
    /\ HttpProbed
    /\ probes[2].out = <<(<<901, NameOpenJdk>>)>>
    /\ probes[3].out = HttpResponse(401)
    /\ ret.val.status = "Running"

\* C4: with the port open and a Java-like listener, any HTTP outcome other
\* than a 200/302/401 response (no request possible, no response, another
\* status code) makes detect_instance_status return Starting; and a call
\* that got as far as a probe never returns an error.
C4_NotReadyStarting ==
    /\ (DetectReturned /\ LookedUp /\ probes[1].out.open /\ probes[2].out # None) =>
          ((/\ probes[2].out[1][2] \in JavaLikeNames
            /\ ~(HttpProbed /\ probes[3].out.ok /\ probes[3].out.code \in ReadyCodes))
               => ret.val.status = "Starting")
    /\ (ret.op = "detect" /\ ~ret.ok) => probes = <<>>

C4_Witness ==
    /\ DetectReturned
    /\ HttpProbed
    /\ probes[2].out = <<(<<900, NameJava>>)>>
    /\ probes[3].out = HttpResponse(404)
    /\ ret.val.status = "Starting"

\* C5: with the port open and an inconclusive lookup (None),
\* detect_instance_status never returns PortConflict: it returns Running
\* when the login page answers 200/302/401 and Starting otherwise, with
\* process_id, process_name and error absent.
C5_InconclusiveLookupOptimistic ==
    (DetectReturned /\ LookedUp /\ probes[1].out.open /\ probes[2].out = None) =>
        /\ ret.val.status =
              IF HttpProbed /\ probes[3].out.ok /\ probes[3].out.code \in ReadyCodes
              THEN "Running" ELSE "Starting"
        /\ ret.val.process_id = None
        /\ ret.val.process_name = None
        /\ ret.val.error = None

C5_Witness ==
    /\ DetectReturned
    /\ HttpProbed
    /\ probes[2].out = None
    /\ probes[3].out = HttpResponse(302)
    /\ ret.val.status = "Running"

\* C6: a successful detect_instance_status call returns one of Stopped,
\* PortConflict, Starting, Running.
C6_DetectedStatuses ==
    DetectReturned =>
        ret.val.status \in {"Stopped", "PortConflict", "Starting", "Running"}

C6_Witness ==
    /\ DetectReturned
    /\ Len(probes) = 3
    /\ ret.val.status = "Starting"

\* C7: detect_all_instances_status returns one result per instance it
\* loaded, the i-th with the id of the i-th; a detection that fails (the
\* instance is gone from the store when its own load runs) pushes a result
\* with status Unknown and the failure as its error, and the loop goes on
\* with the next instance.
C7_Results ==
    /\ batch.active => Len(batch.results) < Len(batch.ids)
    /\ \A i \in 1..Len(batch.results) :
          /\ batch.results[i].instance_id = batch.ids[i]
          /\ batch.results[i].status = "Unknown" =>
                (batch.results[i].error # None /\ batch.results[i].error[1] # <<>>)
    /\ ret.op = "detect_all" =>
          (ret.ok /\ Len(ret.val) = Len(batch.ids) /\ ret.val = batch.results)

C7_FailedDetection ==
    (batch.active /\ pc = "d_load" /\ Position(store, call.id) = 0 /\ batch' # batch) =>
        LET n == Len(batch.results) + 1
        IN  /\ Len(batch'.results) = n
            /\ batch'.results[n].instance_id = call.id
            /\ batch'.results[n].status = "Unknown"
            /\ batch'.results[n].error = << <<"Instance ", call.id, " not found">> >>
            /\ n < Len(batch.ids) =>
                  (pc' = "d_load" /\ call'.op = "detect" /\ call'.id = batch.ids[n + 1])

C7_OneResultPerInstance == []C7_Results /\ [][C7_FailedDetection]_vars

C7_Witness ==
    /\ ret.op = "detect_all"
    /\ Len(ret.val) = 2
    /\ ret.val[1].status = "Unknown"
    /\ ret.val[2].status = "Running"


HealthReturned == ret.op = "health" /\ ret.ok

\* A step in which check_instance_health returns a result.
HealthReturns == pc \in {"h_bundles", "h_version"} /\ pc' = "idle"

BundlesProbed == Len(probes) >= 1 /\ probes[1].kind = "bundles"

\* C8: when the bundles endpoint answers 401, check_instance_health returns
\* status Running with bundle_status and memory_status None, and the record
\* of the instance in the store it has just saved has status Running.
C8_Step ==
    (HealthReturns /\ probes'[1].out.ok /\ probes'[1].out.code = 401) =>
        /\ ret'.op = "health" /\ ret'.ok
        /\ ret'.val.status = "Running"
        /\ ret'.val.bundle_status = None
        /\ ret'.val.memory_status = None
        /\ Position(store', ret'.id) # 0
        /\ store'[Position(store', ret'.id)].status = "Running"

C8_Unauthorized == [][C8_Step]_vars

C8_Witness ==
    /\ HealthReturned
    /\ BundlesProbed
    /\ probes[1].out.code = 401
    /\ ret.val.status = "Running"
    /\ ret.val.bundle_status = None

AuthenticatedKinds == {"bundles", "memory", "version", "shutdown"}
DetectorKinds == {"port", "lookup", "http"}

KindsProbed == {probes[i].kind : i \in 1..Len(probes)}

C10_Step ==
    (pc = "s_post" /\ probes' # probes /\ probes'[Len(probes')].out.ok) =>
        /\ pc' = "idle"
        /\ ret'.op = "stop" /\ ret'.ok /\ ret'.val = TRUE
        /\ Position(store', ret'.id) # 0
        /\ store'[Position(store', ret'.id)].status = "Stopping"
        /\ Len(probes') = 1 /\ probes'[1].kind = "shutdown"

C10_ShutdownSentIsSuccess == [][C10_Step]_vars

C10_Witness ==
    /\ ret.op = "stop" /\ ret.ok
    /\ probes = <<Probe("shutdown", HttpResponse(500))>>
    /\ Position(store, ret.id) # 0
    /\ store[Position(store, ret.id)].status = "Stopping"

\* The process `pid` holds a socket in the listening state on `port`.
ListeningOn(pid, port) ==
    \E s \in os.sockets : s.pid = pid /\ s.state = "LISTEN" /\ s.local = port

\* A fallback step of stop_instance in which a kill command was run on a pid.
FallbackKills ==
    /\ pc = "s_fallback"
    /\ Len(probes') = Len(probes) + 2
    /\ probes'[Len(probes')].kind = "kill"
    /\ probes'[Len(probes')].out.term # "spawn_error"

\* C11: in the fallback of stop_instance the process on which the kill
\* command is run holds a listening socket on the instance's port; a process
\* that only holds an established connection involving that port, or that
\* listens on another port, is never the one killed.
C11_Step ==
    FallbackKills => ListeningOn(probes'[Len(probes') - 1].out[1], Instance.port)

C11_KillsListener == [][C11_Step]_vars

\* C12: stop_instance returns the error "Could not stop instance: no
\* process found" exactly when its shutdown POST got no response and the
\* lookup of the process on the port found none; the step that returns it
\* leaves the store as it is and runs no kill command.
C12_Returned ==
    ret.op = "stop" =>
        ( (~ret.ok /\ ret.err = Some(<<"Could not stop instance: no process found">>))
          <=> /\ Len(probes) = 2
              /\ probes[1].kind = "shutdown" /\ ~probes[1].out.ok
              /\ probes[2].kind = "pid_lookup" /\ probes[2].out = None )

C12_Step ==
    (pc = "s_fallback" /\ pc' = "idle" /\ probes'[Len(probes')].out = None) =>
        /\ store' = store
        /\ ~ret'.ok
        /\ \A i \in 1..Len(probes') : probes'[i].kind # "kill"

C12_NoProcessFound == []C12_Returned /\ [][C12_Step]_vars

C12_Witness ==
    /\ ret.op = "stop"
    /\ ret.err = Some(<<"Could not stop instance: no process found">>)
    /\ probes = <<Probe("shutdown", HttpFailure), Probe("pid_lookup", None)>>
    /\ Position(store, ret.id) # 0
    /\ store[Position(store, ret.id)].status = "Unknown"

\* C13: detect_instance_status, check_instance_health and stop_instance,
\* called with an id that the store they load does not hold, each return the
\* error "Instance <id> not found" in that step, having issued no port
\* probe, process lookup, HTTP request or kill, and leave the store as it is.
C13_Step ==
    /\ ( /\ pc = "idle" /\ ret' # ret /\ ret'.op \in {"health", "stop"}
         /\ Position(store, ret'.id) = 0 ) =>
           /\ pc' = "idle"
           /\ ~ret'.ok /\ ret'.err = Some(<<"Instance ", ret'.id, " not found">>)
           /\ probes' = <<>>
           /\ store' = store
    /\ (pc = "d_load" /\ pc' # pc /\ Position(store, call.id) = 0) =>
           /\ pc' = "idle"
           /\ ret'.op = "detect" /\ ret'.id = call.id
           /\ ~ret'.ok /\ ret'.err = Some(<<"Instance ", call.id, " not found">>)
           /\ probes' = <<>>
           /\ store' = store

C13_NotFoundProbes ==
    (ret.op \in {"detect", "health", "stop"} /\ ~ret.ok
        /\ ret.err = Some(<<"Instance ", ret.id, " not found">>)) => probes = <<>>

C13_UnknownId == []C13_NotFoundProbes /\ [][C13_Step]_vars

C13_Witness ==
    /\ ret.op = "stop" /\ ret.id = "b" /\ ~ret.ok
    /\ ret.err = Some(<<"Instance ", "b", " not found">>)
    /\ probes = <<>>
    /\ store # <<>> /\ Position(store, "b") = 0

\* C14: when the .credentials file holds the pair (u, p) that
\* store_credentials saved for an instance, the credentials that
\* stop_instance and check_instance_health resolve for that instance, and
\* send with their requests, are exactly (u, p).
C14_Step ==
    ( /\ pc = "idle" /\ call'.op \in {"stop", "health"}
      /\ creds.state = "json" /\ creds.entries[call'.id] # None ) =>
        call'.auth = creds.entries[call'.id]

C14_RoundTrip == [][C14_Step]_vars

\* C15: get_instance_credentials never returns an error; when the
\* .credentials file is absent, cannot be read, cannot be parsed or holds
\* no entry for the instance, it returns the declared username, or "admin"
\* when none is declared, with the password "admin".
C15_Step ==
    (pure' # pure /\ pure'.fn = "get_instance_credentials") =>
        /\ pure'.out[1].ok
        /\ (creds.state # "json" \/ creds.entries[pure'.arg[1]] = None) =>
              pure'.out[1].val =
                  << IF pure'.arg[2] = None THEN "admin" ELSE pure'.arg[2][1], "admin" >>

C15_NeverFails ==
    [](pure.fn = "get_instance_credentials" => (pure.out[1].ok /\ pure.out[1].err = None))
    /\ [][C15_Step]_vars

C15_Witness ==
    /\ pure.fn = "get_instance_credentials"
    /\ creds.state = "unparseable"
    /\ pure.arg = <<"a", Some("deploy")>>
    /\ pure.out = Some(Ok(<<"deploy", "admin">>))

\* A step of detect_instance_status or detect_all_instances_status: the
\* commands of other callers change none of these variables.
DetectStep ==
    pc' # pc \/ call' # call \/ batch' # batch \/ probes' # probes \/ ret' # ret

\* C16: no step of detect_instance_status or detect_all_instances_status
\* writes the store: every record, its cached status and updated_at
\* included, is the same after the step as before it.
C16_Step == DetectStep => store' = store

C16_DetectionReadOnly == [][C16_Step]_vars

C16_Witness ==
    /\ DetectReturned
    /\ ret.val.status = "Running"
    /\ Position(store, ret.id) # 0
    /\ store[Position(store, ret.id)].status = "Unknown"
    /\ store[Position(store, ret.id)].updated_at = "t0"

\* The status that the outcomes of the probes of a call determine: the
\* port probe, the process lookup and the login-page request, in that order.
StatusOfProbes(log) ==
    IF ~log[1].out.open THEN "Stopped"
    ELSE IF Len(log) >= 2 /\ log[2].out # None /\ log[2].out[1][2] \in NonJavaNames
    THEN "PortConflict"
    ELSE IF Len(log) >= 3 /\ log[3].out.ok /\ log[3].out.code \in ReadyCodes THEN "Running"
    ELSE "Starting"

\* C17: the status that detect_instance_status returns is a function of the
\* outcomes of its probes alone: two calls that observe the same outcomes
\* return the same status whatever the cached status and the declared type
\* of their instances, and an open port is always followed by the lookup.
C17_FunctionOfProbes ==
    (DetectReturned /\ PortProbed) =>
        /\ ret.val.status = StatusOfProbes(probes)
        /\ probes[1].out.open => LookedUp

C17_Witness ==
    /\ DetectReturned
    /\ HttpProbed
    /\ ret.val.status = "Running"
    /\ Position(store, ret.id) # 0
    /\ store[Position(store, ret.id)].status = "Stopping"
    /\ store[Position(store, ret.id)].instance_type = "publish"

\* C18: the save of check_instance_health or stop_instance keeps what the
\* commands of other callers wrote while it was in flight: the store after
\* the save is the store before it with at most the status and updated_at
\* of the command's own instance changed, so no add, update or delete of
\* another caller is lost.
C18_Step ==
    (pc # "idle" /\ pc' = "idle") =>
        /\ Len(store') = Len(store)
        /\ \A i \in 1..Len(store) :
              \/ store'[i] = store[i]
              \/ /\ store[i].id = ret'.id
                 /\ store'[i] = [store[i] EXCEPT !.status = store'[i].status,
                                                 !.updated_at = store'[i].updated_at]

C18_NoLostUpdate == [][C18_Step]_vars

RECURSIVE Occurrences(_, _)
\* How many entries of a bundle listing have exactly the state `st`.
Occurrences(listing, st) ==
    IF listing = <<>> THEN 0
    ELSE (IF Head(listing) = Some(st) THEN 1 ELSE 0) + Occurrences(Tail(listing), st)

\* C19: whenever parse_bundle_response yields a BundleStatus, its total is
\* the number of entries of the "data" array and its active, resolved and
\* installed counts are the numbers of entries whose state is exactly
\* "Active", "Resolved" and "Installed"; so their sum is at most the total.
C19_BundleCounts ==
    (pure.fn = "parse_bundle_response" /\ pure.out # None /\ pure.out[1] # None) =>
        /\ pure.arg.json /\ pure.arg.data # None
        /\ LET bs == pure.out[1][1]
               listing == pure.arg.data[1]
           IN  /\ bs.total = Len(listing)
               /\ bs.active = Occurrences(listing, "Active")
               /\ bs.resolved = Occurrences(listing, "Resolved")
               /\ bs.installed = Occurrences(listing, "Installed")
               /\ bs.active + bs.resolved + bs.installed <= bs.total

C19_Witness ==
    /\ pure.fn = "parse_bundle_response"
    /\ pure.arg = BundleBody(TRUE, Some(<<Some("Active"), Some("Fragment"), Some("Resolved")>>))
    /\ pure.out = Some(Some([total |-> 3, active |-> 1, resolved |-> 1, installed |-> 0]))

\* C20: once its HTTP client is built, check_instance_health on a stored
\* instance never returns an error, whatever the bundles, memory and version
\* requests come back with: a failed or refused bundles request shows in the
\* status with bundle_status and memory_status None, and after a 2xx answer
\* the status is Running and bundle_status, memory_status and the version
\* are each Some or None according to their own fetch alone.
C20_HealthNeverFails ==
    (ret.op = "health" /\ BundlesProbed) =>
        /\ ret.ok /\ ret.err = None
        /\ ret.val.status \in {"Running", "Stopped"}
        /\ IF probes[1].out.ok /\ probes[1].out.code >= 200 /\ probes[1].out.code <= 299
           THEN /\ ret.val.status = "Running"
                /\ Len(probes) = 3
                /\ probes[2].kind = "memory" /\ probes[3].kind = "version"
                /\ ret.val.bundle_status # None <=>
                      /\ probes[1].out.body.json
                      /\ probes[1].out.body.data # None
                      /\ \A i \in 1..Len(probes[1].out.body.data[1]) :
                            probes[1].out.body.data[1][i] # None
                /\ ret.val.memory_status = probes[2].out
                /\ ret.val.aem_version = None <=> probes[3].out = None
           ELSE /\ ret.val.bundle_status = None
                /\ ret.val.memory_status = None

C20_Witness ==
    /\ HealthReturned
    /\ Len(probes) = 3
    /\ probes[1] = Probe("bundles", BundlesResponse(200, BundleBody(FALSE, None)))
    /\ ret.val.status = "Running"
    /\ ret.val.bundle_status = None
    /\ ret.val.memory_status # None
    /\ ret.val.aem_version = None

\* C21: in the fallback of stop_instance the forced kill is run whenever the
\* process is still alive after the graceful signal, and whenever the
\* fallback returns success and caches Stopped the process it located is no
\* longer alive.
C21_Step ==
    FallbackKills =>
        /\ probes'[Len(probes')].out.survived_term => probes'[Len(probes')].out.force = "ran"
        /\ (ret'.ok /\ store'[Position(store', ret'.id)].status = "Stopped") =>
               ~probes'[Len(probes')].out.alive

C21_TerminatedWhenStopped == [][C21_Step]_vars

\* C22: when the bundles endpoint answers 401, check_instance_health returns
\* status Running with every optional field of the result None: the
\* response time, the bundle status, the memory status and both version
\* strings.
C22_AllOptionalNone ==
    (HealthReturned /\ BundlesProbed /\ probes[1].out.ok /\ probes[1].out.code = 401) =>
        /\ ret.val.status = "Running"
        /\ ret.val.response_time = None
        /\ ret.val.bundle_status = None
        /\ ret.val.memory_status = None
        /\ ret.val.aem_version = None
        /\ ret.val.oak_version = None

\* C23: the port probe of detect_instance_status waits at most one
\* port-probe timeout: for every host, one that resolves to several socket
\* addresses included, check_port_open returns within PortTimeoutMs, and in
\* particular reports a closed port within that time.
C23_PortProbeBound ==
    (pure.fn = "check_port_open" /\ pure.out # None) =>
        pure.out[1].waited <= PortTimeoutMs

\* The place of an id in the vector detect_all_instances_status loaded.
PlaceOf(id) == CHOOSE i \in 1..Len(batch.ids) : batch.ids[i] = id

\* C24: detect_all_instances_status probes its instances concurrently: when
\* the detection of the instance at place k >= 2 starts, the detection of
\* some earlier instance has not returned yet, so fewer than k - 1 results
\* have been produced.
C24_Step ==
    ( /\ batch.active /\ batch'.active
      /\ call'.op = "detect" /\ call'.id # call.id
      /\ PlaceOf(call'.id) >= 2 ) =>
        Len(batch'.results) < PlaceOf(call'.id) - 1

C24_ConcurrentProbes == [][C24_Step]_vars

\* The kinds of the probes of a detection, in the order of its layers.
LayerKinds == <<"port", "lookup", "http">>

\* C25: the probes of a detect_instance_status call run in the order port
\* probe, process lookup, HTTP probe, each at most once; the lookup is made
\* only after the port probe found the port open, and the HTTP probe only
\* after that and after a lookup that did not find a non-Java listener.
C25_ProbeOrder ==
    /\ Len(probes) <= 3
    /\ \A i \in 1..Len(probes) : probes[i].kind = LayerKinds[i]
    /\ Len(probes) >= 2 => probes[1].out.open
    /\ Len(probes) >= 3 =>
          ~(probes[2].out # None /\ probes[2].out[1][2] \in NonJavaNames)
    /\ pc = "d_port" => Len(probes) = 0
    /\ pc = "d_proc" => Len(probes) = 1
    /\ pc = "d_http" => Len(probes) = 2

C25_Witness ==
    /\ DetectReturned
    /\ Len(probes) = 3
    /\ probes[2].out = Some(<<900, NameJava>>)
    /\ probes[3].out.ok

\* An InstanceStatusResult whose optional fields agree with its status.
WellFormed(r) ==
    /\ r.status \in {"PortConflict", "Stopped", "Running", "Starting", "Unknown"}
    /\ r.status = "PortConflict" =>
          r.process_id # None /\ r.process_name # None /\ r.error # None
    /\ r.status = "Stopped" =>
          r.process_id = None /\ r.process_name = None /\ r.error = None
    /\ r.status \in {"Running", "Starting"} =>
          r.error = None /\ (r.process_id # None <=> r.process_name # None)
    /\ r.status = "Unknown" =>
          r.error # None /\ r.process_id = None /\ r.process_name = None

C27_Step ==
    ( /\ pure' # pure /\ pure'.fn = "get_process_info_by_port"
      /\ pure'.out[1] # None ) =>
        ListeningOn(pure'.out[1][1][1], pure'.arg)

C27_ExactPort == [][C27_Step]_vars

\* The number of half megabytes that a text of NumberTexts writes, None for
\* a text that is not a number.
HalfMegabytes(number) ==
    IF number = <<"0">> THEN Some(0)
    ELSE IF number = <<"1">> THEN Some(2)
    ELSE IF number = <<"1", ".", "5">> THEN Some(3)
    ELSE IF number = <<"2">> THEN Some(4)
    ELSE None

\* The first run of digits and dots after each label of the page drawn: the
\* number of the label's own line, or of the next line when its own has none.
RunAfterUsed(m) == IF m.used_number # <<>> THEN m.used_number ELSE m.maximum_number
RunAfterMaximum(m) == m.maximum_number

ExpectedValue(present, run) ==
    IF present /\ HalfMegabytes(run) # None
    THEN Some(HalfMegabytes(run)[1] * 524288)
    ELSE None

\* C28: extract_memory_value returns a value exactly when the text contains
\* the label and the first run of digits and dots after it is a number, and
\* the value is that number of megabytes in bytes; fetch_memory_status is
\* None when either value is missing, and otherwise carries both values with
\* heap_percentage = heap_used / heap_max * 100, or 0 when heap_max is 0.
C28_MemoryExtraction ==
    (pure.fn = "fetch_memory_status" /\ pure.out # None) =>
        LET m == pure.arg
            o == pure.out[1]
        IN  /\ o.used = ExpectedValue(m.body # None /\ m.used_label, RunAfterUsed(m))
            /\ o.maximum = ExpectedValue(m.body # None /\ m.maximum_label, RunAfterMaximum(m))
            /\ o.memory_status = None <=> (o.used = None \/ o.maximum = None)
            /\ o.memory_status # None =>
                  /\ o.memory_status[1].heap_used = o.used[1]
                  /\ o.memory_status[1].heap_max = o.maximum[1]
                  /\ o.memory_status[1].heap_percentage.den > 0
                  /\ IF o.maximum[1] > 0
                     THEN o.memory_status[1].heap_percentage.num
                              * HalfMegabytes(RunAfterMaximum(m))[1]
                          = HalfMegabytes(RunAfterUsed(m))[1] * 100
                              * o.memory_status[1].heap_percentage.den
                     ELSE o.memory_status[1].heap_percentage.num = 0

C28_Witness ==
    /\ pure.fn = "fetch_memory_status"
    /\ pure.arg.body = Some(MemoryPage(TRUE, <<"1", ".", "5">>, TRUE, <<"2">>))
    /\ pure.out # None
    /\ pure.out[1].memory_status =
          Some([ heap_used |-> 1572864, heap_max |-> 2097152,
                 heap_percentage |-> [num |-> 75, den |-> 1] ])

\* C29: the step in which check_instance_health saves changes only the
\* cached status and updated_at of its own instance: every other record of
\* the store and every other field of that record is as before the step,
\* and the status written is Running or Stopped.
C29_Step ==
    HealthReturns =>
        /\ Len(store') = Len(store)
        /\ \A i \in 1..Len(store) :
              IF store[i].id = ret'.id
              THEN /\ store'[i].status \in {"Running", "Stopped"}
                   /\ store'[i] = [store[i] EXCEPT !.status = store'[i].status,
                                                   !.updated_at = store'[i].updated_at]
              ELSE store'[i] = store[i]

C29_HealthFrame == [][C29_Step]_vars

\* No two records of a list share an id
UniqueIds(instances) ==
    \A i, j \in 1..Len(instances) : i # j => instances[i].id # instances[j].id

\* What a step of add_instance, update_instance or delete_instance does to
\* the store, read from the command and the id it replied for.
C30_Step ==
    LET command == pure'.arg[1]
        id == pure'.arg[2]
        reply == pure'.out[1]
        at == Position(store, id)
    IN  /\ pure'.arg # <<>>
        /\ (command = "add_instance" /\ at # 0) =>
               ~reply.ok /\ store' = store
        /\ (command = "add_instance" /\ at = 0) =>
               /\ reply.ok /\ reply.val.id = id
               /\ store' = Append(store, reply.val)
        /\ (command = "update_instance" /\ at # 0) =>
               /\ reply.ok /\ reply.val.id = id
               /\ store' = [store EXCEPT ![at] = reply.val]
        /\ (command = "update_instance" /\ at = 0) =>
               ~reply.ok /\ store' = store
        /\ (command = "delete_instance" /\ at = 0) =>
               ~reply.ok /\ store' = store
        /\ (command = "delete_instance" /\ at # 0) =>
               /\ reply.ok
               /\ Len(store') = Len(store) - 1
               /\ Position(store', id) = 0

\* C30: from the empty store, whatever add_instance, update_instance and
\* delete_instance calls are made, no two stored records share an id: adding
\* an id already present fails and leaves the store unchanged, an update
\* keeps the addressed record's id whatever id the payload carries, and
\* deleting an unknown id fails and leaves the store unchanged.
C30_UniqueIds == []UniqueIds(store) /\ [][C30_Step]_vars

C30_Witness ==
    /\ Len(store) = 2
    /\ pure.arg = <<"update_instance", "a">>
    /\ pure.out[1].ok
    /\ PayloadId # "a"
    /\ Position(store, PayloadId) # 0

====
